---- MODULE Spec2Model ----
(***************************************************************************)
(* Model of packages/common/src/index.ts (class Common): the hardfork /    *)
(* EIP parameter resolution, the hardfork timeline queries, the fork hash  *)
(* derivation and the mutable configuration (chain, hardfork, supported    *)
(* hardforks, active EIPs).                                                *)
(*                                                                         *)
(* JavaScript values: null is Null, undefined is Undefined, a thrown Error *)
(* is a result whose status names the error, a normal return has status    *)
(* "ok".  A hardfork option that is not given is the empty string (falsy). *)
(***************************************************************************)
EXTENDS Integers, Sequences, FiniteSets, TLC

VARIABLES _chainParams, _hardfork, _supportedHardforks, _eips,
          HARDFORK_CHANGES, EIPs, call

vars == <<_chainParams, _hardfork, _supportedHardforks, _eips,
          HARDFORK_CHANGES, EIPs, call>>

Null == -1
Undefined == -2

DEFAULT_HARDFORK == "istanbul"

\* ---------------------------------------------------------------- bounds
MaxBlock == 1
MaxLen == 2
MaxEips == 2

\* ------------------------------------------------------- generic helpers
Return(v) == [status |-> "ok", value |-> v]
Throw(e) == [status |-> e, value |-> Null]

Range(s) == {s[i] : i \in 1..Len(s)}

\* ------------------------------------------------------------- accessors
genesis(chainParams) == chainParams.genesis

hardforks(chainParams) == chainParams.hardforks

\* ------------------------------------------------------ support allow-list
_isSupportedHardfork(supported, hardfork) ==
  IF Len(supported) > 0
  THEN \E i \in 1..Len(supported) : supported[i] = hardfork
  ELSE TRUE

\* hardfork = "" stands for a missing / null argument.  onlySupported is
\* "true", "false" or "undefined"; an undefined argument takes the default
\* (true).
_chooseHardfork(supported, current, hardfork, onlySupported) ==
  LET only == IF onlySupported = "undefined" THEN TRUE ELSE onlySupported = "true"
  IN  IF hardfork = "" THEN [status |-> "ok", hardfork |-> current]
      ELSE IF only /\ ~_isSupportedHardfork(supported, hardfork)
           THEN [status |-> "UnsupportedHardfork", hardfork |-> hardfork]
           ELSE [status |-> "ok", hardfork |-> hardfork]

\* ------------------------------------------------------------ setHardfork
\* setHardfork assigning before the support check.
setHardforkAssignFirst(changes, supported, current, hardfork) ==
  IF \E i \in 1..Len(changes) : changes[i][1] = hardfork
  THEN [status |-> IF _isSupportedHardfork(supported, hardfork)
                   THEN "ok" ELSE "UnsupportedHardfork",
        hardfork |-> hardfork]
  ELSE [status |-> IF _isSupportedHardfork(supported, hardfork)
                   THEN "UnknownHardfork" ELSE "UnsupportedHardfork",
        hardfork |-> current]

\* The new value of _hardfork and the outcome of setHardfork(hardfork).
setHardfork(changes, supported, current, hardfork) ==
  IF ~_isSupportedHardfork(supported, hardfork)
  THEN [status |-> "UnsupportedHardfork", hardfork |-> current]
  ELSE IF \E i \in 1..Len(changes) : changes[i][1] = hardfork
       THEN [status |-> "ok", hardfork |-> hardfork]
       ELSE [status |-> "UnknownHardfork", hardfork |-> current]

\* --------------------------------------------------------- activeHardforks
\* opts is a record [onlySupported, onlyActive], each "true", "false" or
\* "undefined".
NoOpts == [onlySupported |-> "undefined", onlyActive |-> "undefined"]

Truthy(flag) == flag = "true"

RECURSIVE activeHardforksFrom(_, _, _, _, _, _)
activeHardforksFrom(hfs, i, supported, blockNumber, opts, acc) ==
  IF i > Len(hfs) THEN acc
  ELSE LET hf == hfs[i] IN
       IF hf.block = Null
       THEN activeHardforksFrom(hfs, i + 1, supported, blockNumber, opts, acc)
       ELSE IF blockNumber # Undefined /\ blockNumber # Null /\ blockNumber < hf.block
       THEN acc
       ELSE IF Truthy(opts.onlySupported) /\ ~_isSupportedHardfork(supported, hf.name)
       THEN activeHardforksFrom(hfs, i + 1, supported, blockNumber, opts, acc)
       ELSE activeHardforksFrom(hfs, i + 1, supported, blockNumber, opts, Append(acc, hf))

\* activeHardforks stopping at a record whose block equals blockNumber.
RECURSIVE activeHardforksBefore(_, _, _, _, _, _)
activeHardforksBefore(hfs, i, supported, blockNumber, opts, acc) ==
  IF i > Len(hfs) THEN acc
  ELSE LET hf == hfs[i] IN
       IF hf.block = Null
       THEN activeHardforksBefore(hfs, i + 1, supported, blockNumber, opts, acc)
       ELSE IF blockNumber # Undefined /\ blockNumber # Null /\ blockNumber <= hf.block
       THEN acc
       ELSE IF Truthy(opts.onlySupported) /\ ~_isSupportedHardfork(supported, hf.name)
       THEN activeHardforksBefore(hfs, i + 1, supported, blockNumber, opts, acc)
       ELSE activeHardforksBefore(hfs, i + 1, supported, blockNumber, opts, Append(acc, hf))

activeHardforksExclusive(chainParams, supported, blockNumber, opts) ==
  activeHardforksBefore(hardforks(chainParams), 1, supported, blockNumber, opts, <<>>)

activeHardforks(chainParams, supported, blockNumber, opts) ==
  activeHardforksFrom(hardforks(chainParams), 1, supported, blockNumber, opts, <<>>)

activeHardfork(chainParams, supported, blockNumber, opts) ==
  LET active == activeHardforks(chainParams, supported, blockNumber, opts)
  IN  IF Len(active) > 0
      THEN [status |-> "ok", name |-> active[Len(active)].name]
      ELSE [status |-> "NotFound", name |-> ""]

\* ----------------------------------------------------- hardforkGteHardfork
\* Position of the last record named hardfork in hfs, 0-based, -1 if absent.
RECURSIVE posOf(_, _, _, _)
posOf(hfs, hardfork, i, pos) ==
  IF i > Len(hfs) THEN pos
  ELSE posOf(hfs, hardfork, i + 1, IF hfs[i].name = hardfork THEN i - 1 ELSE pos)

\* hardforkGteHardfork comparing the positions strictly.
hardforkGtHardfork(chainParams, supported, current, hardfork1, hardfork2, opts) ==
  LET onlyActive == IF opts.onlyActive = "undefined" THEN FALSE
                    ELSE opts.onlyActive = "true"
      chosen == _chooseHardfork(supported, current, hardfork1, opts.onlySupported)
      hfs == IF onlyActive
             THEN activeHardforks(chainParams, supported, Null, opts)
             ELSE hardforks(chainParams)
      posHf1 == posOf(hfs, chosen.hardfork, 1, -1)
      posHf2 == posOf(hfs, hardfork2, 1, -1)
  IN  IF chosen.status # "ok" THEN [status |-> chosen.status, value |-> FALSE]
      ELSE [status |-> "ok", value |-> (posHf1 > posHf2)]

hardforkGteHardfork(chainParams, supported, current, hardfork1, hardfork2, opts) ==
  LET onlyActive == IF opts.onlyActive = "undefined" THEN FALSE
                    ELSE opts.onlyActive = "true"
      chosen == _chooseHardfork(supported, current, hardfork1, opts.onlySupported)
      hfs == IF onlyActive
             THEN activeHardforks(chainParams, supported, Null, opts)
             ELSE hardforks(chainParams)
      posHf1 == posOf(hfs, chosen.hardfork, 1, -1)
      posHf2 == posOf(hfs, hardfork2, 1, -1)
  IN  IF chosen.status # "ok" THEN [status |-> chosen.status, value |-> FALSE]
      ELSE [status |-> "ok", value |-> (posHf1 >= posHf2)]

gteHardfork(chainParams, supported, current, hardfork, opts) ==
  hardforkGteHardfork(chainParams, supported, current, "", hardfork, opts)

\* ----------------------------------------------------------------- setEIPs
\* The status of the validation loop of setEIPs from element i on.
RECURSIVE setEIPsFrom(_, _, _, _, _, _)
setEIPsFrom(eipsData, chainParams, supported, current, eips, i) ==
  IF i > Len(eips) THEN "ok"
  ELSE IF eips[i] \notin DOMAIN eipsData THEN "UnknownEIP"
  ELSE IF ~gteHardfork(chainParams, supported, current,
                       eipsData[eips[i]].minimumHardfork, NoOpts).value
       THEN "HardforkTooOld"
       ELSE setEIPsFrom(eipsData, chainParams, supported, current, eips, i + 1)

\* setEIPs committing the list before the validation has finished.
setEIPsCommitFirst(eipsData, chainParams, supported, current, oldEips, eips) ==
  [status |-> setEIPsFrom(eipsData, chainParams, supported, current, eips, 1),
   eips |-> eips]

\* The new value of _eips and the outcome of setEIPs(eips).
setEIPs(eipsData, chainParams, supported, current, oldEips, eips) ==
  LET status == setEIPsFrom(eipsData, chainParams, supported, current, eips, 1)
  IN  [status |-> status, eips |-> IF status = "ok" THEN eips ELSE oldEips]

\* ------------------------------------------------- setHardforkByBlockNumber
RECURSIVE hardforkByBlockNumberFrom(_, _, _, _)
hardforkByBlockNumberFrom(hfs, i, blockNumber, hardfork) ==
  IF i > Len(hfs) THEN hardfork
  ELSE LET hardforkBlock == hfs[i].block IN
       IF hardforkBlock = Null
       THEN hardforkByBlockNumberFrom(hfs, i + 1, blockNumber, hardfork)
       ELSE hardforkByBlockNumberFrom(hfs, i + 1, blockNumber,
              IF blockNumber >= hardforkBlock THEN hfs[i].name ELSE hardfork)

\* setHardforkByBlockNumber stopping at the first hardfork set at or before
\* the block.
RECURSIVE firstHardforkByBlockNumberFrom(_, _, _, _)
firstHardforkByBlockNumberFrom(hfs, i, blockNumber, hardfork) ==
  IF i > Len(hfs) THEN hardfork
  ELSE IF hfs[i].block # Null /\ blockNumber >= hfs[i].block
       THEN hfs[i].name
       ELSE firstHardforkByBlockNumberFrom(hfs, i + 1, blockNumber, hardfork)

setHardforkByBlockNumberFirst(changes, chainParams, supported, current, blockNumber) ==
  LET hardfork == firstHardforkByBlockNumberFrom(hardforks(chainParams), 1, blockNumber,
                                                 "chainstart")
      set == setHardfork(changes, supported, current, hardfork)
  IN  [status |-> set.status, hardfork |-> set.hardfork, chosen |-> hardfork,
       value |-> IF set.status = "ok" THEN hardfork ELSE ""]

\* The name chosen, the new value of _hardfork and the outcome.
setHardforkByBlockNumber(changes, chainParams, supported, current, blockNumber) ==
  LET hardfork == hardforkByBlockNumberFrom(hardforks(chainParams), 1, blockNumber, "chainstart")
      set == setHardfork(changes, supported, current, hardfork)
  IN  [status |-> set.status, hardfork |-> set.hardfork, chosen |-> hardfork,
       value |-> IF set.status = "ok" THEN hardfork ELSE ""]

\* ------------------------------------------------------- nextHardforkBlock
\* A relational comparison converts null to 0.
ToNumber(v) == IF v = Null THEN 0 ELSE v

_getHardfork(chainParams, hardfork) ==
  LET hfs == hardforks(chainParams)
  IN  IF \E i \in 1..Len(hfs) : hfs[i].name = hardfork
      THEN [status |-> "ok",
            hf |-> hfs[CHOOSE i \in 1..Len(hfs) :
                         /\ hfs[i].name = hardfork
                         /\ \A j \in 1..(i - 1) : hfs[j].name # hardfork]]
      ELSE [status |-> "UnknownHardfork", hf |-> Null]

hardforkBlock(chainParams, supported, current, hardfork) ==
  LET chosen == _chooseHardfork(supported, current, hardfork, "false")
      data == _getHardfork(chainParams, chosen.hardfork)
  IN  IF data.status # "ok" THEN Throw(data.status) ELSE Return(data.hf.block)

RECURSIVE nextHardforkBlockFrom(_, _, _, _)
nextHardforkBlockFrom(hfs, i, hfBlock, acc) ==
  IF i > Len(hfs) THEN acc
  ELSE nextHardforkBlockFrom(hfs, i + 1, hfBlock,
         IF ToNumber(hfs[i].block) > ToNumber(hfBlock) /\ acc = Null
         THEN hfs[i].block ELSE acc)

nextHardforkBlock(chainParams, supported, current, hardfork) ==
  LET chosen == _chooseHardfork(supported, current, hardfork, "false")
      hfBlock == hardforkBlock(chainParams, supported, current, chosen.hardfork)
  IN  IF hfBlock.status # "ok" THEN Throw(hfBlock.status)
      ELSE Return(nextHardforkBlockFrom(hardforks(chainParams), 1, hfBlock.value, Null))

\* -------------------------------------------------------------- paramByEIP
paramByEIP(eipsData, topic, name, eip) ==
  IF eip \notin DOMAIN eipsData THEN Throw("UnknownEIP")
  ELSE LET eipParams == eipsData[eip]
       IN  IF topic \notin DOMAIN eipParams THEN Throw("UnknownTopic")
           ELSE IF name \notin DOMAIN eipParams[topic] THEN Return(Null)
           ELSE Return(eipParams[topic][name])

\* --------------------------------------------------------- paramByHardfork
\* The loop over the EIPs of an EIP-referencing hardfork file.
RECURSIVE paramByHardforkEIPs(_, _, _, _, _, _)
paramByHardforkEIPs(eipsData, topic, name, hfEIPs, j, value) ==
  IF j > Len(hfEIPs) THEN Return(value)
  ELSE LET valueEIP == paramByEIP(eipsData, topic, name, hfEIPs[j])
       IN  IF valueEIP.status # "ok" THEN valueEIP
           ELSE paramByHardforkEIPs(eipsData, topic, name, hfEIPs, j + 1,
                  IF valueEIP.value # Null THEN valueEIP.value ELSE value)

\* One iteration of the loop over HARDFORK_CHANGES: the value after hfChanges.
paramByHardforkStep(eipsData, topic, name, hfChanges, value) ==
  IF "eips" \in DOMAIN hfChanges[2]
  THEN paramByHardforkEIPs(eipsData, topic, name, hfChanges[2].eips, 1, value)
  ELSE IF topic \notin DOMAIN hfChanges[2] THEN Throw("UnknownTopic")
  ELSE IF name \in DOMAIN hfChanges[2][topic] THEN Return(hfChanges[2][topic][name])
  ELSE Return(value)

RECURSIVE paramByHardforkFrom(_, _, _, _, _, _, _)
paramByHardforkFrom(changes, eipsData, topic, name, hardfork, i, value) ==
  IF i > Len(changes) THEN Return(value)
  ELSE LET step == paramByHardforkStep(eipsData, topic, name, changes[i], value)
       IN  IF step.status # "ok" THEN step
           ELSE IF changes[i][1] = hardfork THEN step
           ELSE paramByHardforkFrom(changes, eipsData, topic, name, hardfork, i + 1,
                                    step.value)

\* paramByHardfork without the break at the target hardfork.
RECURSIVE paramByHardforkAll(_, _, _, _, _, _, _)
paramByHardforkAll(changes, eipsData, topic, name, hardfork, i, value) ==
  IF i > Len(changes) THEN Return(value)
  ELSE LET step == paramByHardforkStep(eipsData, topic, name, changes[i], value)
       IN  IF step.status # "ok" THEN step
           ELSE paramByHardforkAll(changes, eipsData, topic, name, hardfork, i + 1,
                                   step.value)

paramByHardforkNoBreak(changes, eipsData, supported, current, topic, name, hardfork) ==
  LET chosen == _chooseHardfork(supported, current, hardfork, "undefined")
  IN  IF chosen.status # "ok" THEN Throw(chosen.status)
      ELSE paramByHardforkAll(changes, eipsData, topic, name, chosen.hardfork, 1, Null)

paramByHardfork(changes, eipsData, supported, current, topic, name, hardfork) ==
  LET chosen == _chooseHardfork(supported, current, hardfork, "undefined")
  IN  IF chosen.status # "ok" THEN Throw(chosen.status)
      ELSE paramByHardforkFrom(changes, eipsData, topic, name, chosen.hardfork, 1, Null)

\* ------------------------------------------------------------------- param
RECURSIVE paramFrom(_, _, _, _, _, _, _, _)
paramFrom(changes, eipsData, supported, current, eips, topic, name, i) ==
  IF i > Len(eips)
  THEN paramByHardfork(changes, eipsData, supported, current, topic, name, current)
  ELSE LET value == paramByEIP(eipsData, topic, name, eips[i])
       IN  IF value.status # "ok" THEN value
           ELSE IF value.value # Null THEN value
           ELSE paramFrom(changes, eipsData, supported, current, eips, topic, name, i + 1)

\* param returning what the first active EIP gives, null included.
paramFirstEIP(changes, eipsData, supported, current, eips, topic, name) ==
  IF Len(eips) > 0 THEN paramByEIP(eipsData, topic, name, eips[1])
  ELSE paramByHardfork(changes, eipsData, supported, current, topic, name, current)

param(changes, eipsData, supported, current, eips, topic, name) ==
  paramFrom(changes, eipsData, supported, current, eips, topic, name, 1)

\* ------------------------------------------------------------------ CRC-32
\* A 32-bit word is the pair <<high 16 bits, low 16 bits>>.
RECURSIVE XorBits(_, _)
XorBits(a, b) ==
  IF a = 0 THEN b
  ELSE IF b = 0 THEN a
  ELSE 2 * XorBits(a \div 2, b \div 2) + ((a + b) % 2)

\* a ^ b on bytes, tabulated.
XorByte == [a \in 0..255 |-> [b \in 0..255 |-> XorBits(a, b)]]

\* a ^ b on 16-bit halves.
Xor(a, b) == 256 * XorByte[a \div 256][b \div 256] + XorByte[a % 256][b % 256]

XorWord(v, w) == <<Xor(v[1], w[1]), Xor(v[2], w[2])>>

ShiftRight(w, bits) ==
  LET d == 2 ^ bits
  IN  <<w[1] \div d, (w[1] % d) * (65536 \div d) + (w[2] \div d)>>

\* The reflected CRC-32 polynomial 0xEDB88320.
CRCPolynomial == <<60856, 33568>>

RECURSIVE crcBits(_, _)
crcBits(w, k) ==
  IF k = 0 THEN w
  ELSE crcBits(IF w[2] % 2 = 1 THEN XorWord(ShiftRight(w, 1), CRCPolynomial)
               ELSE ShiftRight(w, 1), k - 1)

CRCTable == [n \in 0..255 |-> crcBits(<<0, n>>, 8)]

crcByte(w, byte) == XorWord(CRCTable[Xor(w[2] % 256, byte)], ShiftRight(w, 8))

\* The CRC register at the start and after each byte.
RECURSIVE crcRegisters(_, _)
crcRegisters(bytes, registers) ==
  IF Len(registers) > Len(bytes) THEN registers
  ELSE crcRegisters(bytes, Append(registers, crcByte(registers[Len(registers)],
                                                     bytes[Len(registers)])))

\* crc32Buffer(buf) >>> 0: the unsigned CRC-32 of the bytes.
crc32Buffer(bytes) ==
  XorWord(crcRegisters(bytes, << <<65535, 65535>> >>)[Len(bytes) + 1], <<65535, 65535>>)

\* Number.prototype.toString(16): the hexadecimal digits, most significant
\* first, without leading zeros.
RECURSIVE HexDigits(_)
HexDigits(n) == IF n < 16 THEN <<n>> ELSE Append(HexDigits(n \div 16), n % 16)

PadStart(digits, length) == [k \in 1..(length - Len(digits)) |-> 0] \o digits

toString16(w) ==
  IF w[1] = 0 THEN HexDigits(w[2]) ELSE HexDigits(w[1]) \o PadStart(HexDigits(w[2]), 4)

\* Buffer.from(block.toString(16).padStart(16, '0'), 'hex'): eight bytes,
\* most significant first.
RECURSIVE BytesOfHex(_)
BytesOfHex(digits) ==
  IF Len(digits) < 2 THEN <<>>
  ELSE <<16 * digits[1] + digits[2]>> \o BytesOfHex(SubSeq(digits, 3, Len(digits)))

hfBlockBuffer(block) == BytesOfHex(PadStart(HexDigits(block), 16))

\* ----------------------------------------------------------- _calcForkHash
RECURSIVE calcForkHashFrom(_, _, _, _, _)
calcForkHashFrom(hfs, hardfork, i, prevBlock, hfBuffer) ==
  IF i > Len(hfs) THEN hfBuffer
  ELSE LET block == hfs[i].block
           buffer == IF block # 0 /\ block # Null /\ block # prevBlock
                     THEN hfBuffer \o hfBlockBuffer(block)
                     ELSE hfBuffer
       IN  IF hfs[i].name = hardfork THEN buffer
           ELSE calcForkHashFrom(hfs, hardfork, i + 1, block, buffer)

\* The loop of _calcForkHash without the check against the previous block.
RECURSIVE calcForkHashEvery(_, _, _, _)
calcForkHashEvery(hfs, hardfork, i, hfBuffer) ==
  IF i > Len(hfs) THEN hfBuffer
  ELSE LET block == hfs[i].block
           buffer == IF block # 0 /\ block # Null
                     THEN hfBuffer \o hfBlockBuffer(block)
                     ELSE hfBuffer
       IN  IF hfs[i].name = hardfork THEN buffer
           ELSE calcForkHashEvery(hfs, hardfork, i + 1, buffer)

_calcForkHashEvery(chainParams, hardfork) ==
  toString16(crc32Buffer(genesis(chainParams).hash
                         \o calcForkHashEvery(hardforks(chainParams), hardfork, 1, <<>>)))

\* The fork hash is the sequence of the hexadecimal digits after "0x".
_calcForkHash(chainParams, hardfork) ==
  toString16(crc32Buffer(genesis(chainParams).hash
                         \o calcForkHashFrom(hardforks(chainParams), hardfork, 1, 0, <<>>)))

\* ---------------------------------------------------------------- forkHash
\* forkHash computing the hash even when the record carries one.
forkHashCalcOnly(chainParams, supported, current, hardfork) ==
  LET chosen == _chooseHardfork(supported, current, hardfork, "false")
      data == _getHardfork(chainParams, chosen.hardfork)
  IN  IF data.status # "ok" THEN Throw(data.status)
      ELSE IF data.hf.block = Null THEN Throw("NoForkHash")
      ELSE Return(_calcForkHash(chainParams, chosen.hardfork))

forkHash(chainParams, supported, current, hardfork) ==
  LET chosen == _chooseHardfork(supported, current, hardfork, "false")
      data == _getHardfork(chainParams, chosen.hardfork)
  IN  IF data.status # "ok" THEN Throw(data.status)
      ELSE IF data.hf.block = Null THEN Throw("NoForkHash")
      ELSE IF "forkHash" \in DOMAIN data.hf THEN Return(data.hf.forkHash)
      ELSE Return(_calcForkHash(chainParams, chosen.hardfork))

\* ----------------------------------------------------- hardforkForForkHash
hardforkForForkHash(chainParams, hash) ==
  LET Matches(hf) == "forkHash" \in DOMAIN hf /\ hf.forkHash = hash
      resArray == SelectSeq(hardforks(chainParams), Matches)
  IN  IF Len(resArray) = 1 THEN [found |-> TRUE, hf |-> resArray[1]]
      ELSE [found |-> FALSE, hf |-> Null]

\* ---------------------------------------------------------------- setChain
\* A chain selector is [type |-> "string", name |-> n], or
\* [type |-> "object", chain |-> c] or [type |-> "other"].
RequiredChainParams == {"networkId", "genesis", "hardforks", "bootstrapNodes"}

_getChainParams(initializedChains, name) ==
  IF name \in DOMAIN initializedChains
  THEN [status |-> "ok", chain |-> initializedChains[name]]
  ELSE [status |-> "UnknownChain", chain |-> Null]

setChain(initializedChains, oldChain, selector) ==
  IF selector.type = "string"
  THEN LET found == _getChainParams(initializedChains, selector.name)
       IN  [status |-> found.status,
            chain |-> IF found.status = "ok" THEN found.chain ELSE oldChain]
  ELSE IF selector.type = "object"
  THEN IF \E required \in RequiredChainParams : required \notin DOMAIN selector.chain
       THEN [status |-> "MissingField", chain |-> oldChain]
       ELSE [status |-> "ok", chain |-> selector.chain]
  ELSE [status |-> "WrongInputFormat", chain |-> oldChain]

\* ------------------------------------------------------------ constructor
\* opts is a record with the fields chain, hardfork ("" when not given), eips
\* and, when given, supportedHardforks.
Construct(changes, eipsData, initializedChains, opts) ==
  LET chain == setChain(initializedChains, Null, opts.chain)
      supported == IF "supportedHardforks" \in DOMAIN opts
                   THEN opts.supportedHardforks ELSE <<>>
      hf == IF opts.hardfork # ""
            THEN setHardfork(changes, supported, DEFAULT_HARDFORK, opts.hardfork)
            ELSE [status |-> "ok", hardfork |-> DEFAULT_HARDFORK]
      e == setEIPs(eipsData, chain.chain, supported, hf.hardfork, <<>>, opts.eips)
  IN  IF chain.status # "ok" THEN [status |-> chain.status]
      ELSE IF hf.status # "ok" THEN [status |-> hf.status]
      ELSE IF e.status # "ok" THEN [status |-> e.status]
      ELSE [status |-> "ok", chainParams |-> chain.chain, hardfork |-> hf.hardfork,
            supportedHardforks |-> supported, eips |-> e.eips]

\* ----------------------------------------------------------------- dataset
\* The imported tables (./hardforks, ./eips, ./chains) are data; the model
\* draws them from the small families below.
Topics == {"gasPrices", "vm"}
ParamName == "sstoreSet"

NoParams == <<>>
OneParam(v) == [sstoreSet |-> v]

InlineChanges(gasPrices) == [gasPrices |-> gasPrices, vm |-> NoParams]
EIPChanges(eips) == [eips |-> eips]

ChangesFixture ==
  << <<"chainstart", InlineChanges(OneParam(1))>>,
     <<"homestead", InlineChanges(NoParams)>>,
     <<"istanbul", InlineChanges(OneParam(3))>>,
     <<"berlin", EIPChanges(<<2537>>)>> >>

EIPsFixture ==
  2537 :> [minimumHardfork |-> "chainstart", gasPrices |-> OneParam(11), vm |-> NoParams]
  @@ 2315 :> [minimumHardfork |-> "istanbul", gasPrices |-> NoParams, vm |-> NoParams]

\* 9999 is an EIP number the dataset does not have.
EIPNumbers == {2537, 2315, 9999}

GenesisHash == <<212, 229>>

Blocks(maxBlock) == {Null} \cup 0..maxBlock

\* A hardfork record of a chain; the forkHash field is optional.
HardforkRecords(names, blocks, hashes) ==
  [name : names, block : blocks] \cup [name : names, block : blocks, forkHash : hashes]

UniqueNames(hfs) ==
  \A i, j \in 1..Len(hfs) : i # j => hfs[i].name # hfs[j].name

\* The activation blocks that are set never decrease along the timeline.
Monotonic(hfs) ==
  \A i, j \in 1..Len(hfs) :
    (i < j /\ hfs[i].block # Null /\ hfs[j].block # Null) => hfs[i].block <= hfs[j].block

Timelines(names, maxLen, blocks, hashes) ==
  {hfs \in UNION {[1..n -> HardforkRecords(names, blocks, hashes)] : n \in 0..maxLen} :
     UniqueNames(hfs) /\ Monotonic(hfs)}

Chain(hfs) ==
  [name |-> "custom", networkId |-> 1, genesis |-> [hash |-> GenesisHash],
   hardforks |-> hfs, bootstrapNodes |-> <<>>]

\* A chain that _getInitializedChains() knows by name.
InitializedChains ==
  [mainnet |-> Chain(<< [name |-> "chainstart", block |-> 0],
                        [name |-> "homestead", block |-> 1],
                        [name |-> "istanbul", block |-> Null] >>)]

HardforkArgs == {"chainstart", "homestead", "istanbul", "berlin", "customFork"}

SupportedChoices == {<<>>, <<"chainstart", "istanbul">>, <<"homestead">>}

NoRepeat(s) == \A i, j \in 1..Len(s) : i # j => s[i] # s[j]

EipLists == {e \in UNION {[1..n -> EIPNumbers] : n \in 0..MaxEips} : NoRepeat(e)}

Options(chains, hardforkArgs, eipLists, supportedChoices) ==
  {[chain |-> [type |-> "object", chain |-> c], hardfork |-> h, eips |-> e] :
     c \in chains, h \in hardforkArgs, e \in eipLists}
  \cup {[chain |-> [type |-> "object", chain |-> c], hardfork |-> h, eips |-> e,
         supportedHardforks |-> s] :
     c \in chains, h \in hardforkArgs, e \in eipLists, s \in supportedChoices}

\* ---------------------------------------------------------- initial states
Constructed(changes, eipsData, opts) ==
  LET c == Construct(changes, eipsData, InitializedChains, opts)
  IN  /\ c.status = "ok"
      /\ HARDFORK_CHANGES = changes
      /\ EIPs = eipsData
      /\ _chainParams = c.chainParams
      /\ _hardfork = c.hardfork
      /\ _supportedHardforks = c.supportedHardforks
      /\ _eips = c.eips
      /\ call = [op |-> "constructor"]

\* ---------------------------------------------------------------- actions
SetChain(selector) ==
  LET r == setChain(InitializedChains, _chainParams, selector)
  IN  /\ _chainParams' = r.chain
      /\ call' = [op |-> "setChain", status |-> r.status]
      /\ UNCHANGED <<_hardfork, _supportedHardforks, _eips, HARDFORK_CHANGES, EIPs>>

SetHardfork(hardfork) ==
  LET r == setHardfork(HARDFORK_CHANGES, _supportedHardforks, _hardfork, hardfork)
  IN  /\ _hardfork' = r.hardfork
      /\ call' = [op |-> "setHardfork", status |-> r.status, hardfork |-> hardfork,
                  before |-> _hardfork]
      /\ UNCHANGED <<_chainParams, _supportedHardforks, _eips, HARDFORK_CHANGES, EIPs>>

SetHardforkByBlockNumber(blockNumber) ==
  LET r == setHardforkByBlockNumber(HARDFORK_CHANGES, _chainParams, _supportedHardforks,
                                    _hardfork, blockNumber)
  IN  /\ _hardfork' = r.hardfork
      /\ call' = [op |-> "setHardforkByBlockNumber", status |-> r.status,
                  blockNumber |-> blockNumber, chosen |-> r.chosen, value |-> r.value,
                  before |-> _hardfork]
      /\ UNCHANGED <<_chainParams, _supportedHardforks, _eips, HARDFORK_CHANGES, EIPs>>

SetEIPs(eips) ==
  LET r == setEIPs(EIPs, _chainParams, _supportedHardforks, _hardfork, _eips, eips)
  IN  /\ _eips' = r.eips
      /\ call' = [op |-> "setEIPs", status |-> r.status, eips |-> eips, before |-> _eips]
      /\ UNCHANGED <<_chainParams, _hardfork, _supportedHardforks, HARDFORK_CHANGES, EIPs>>

Query(record) ==
  /\ call' = record
  /\ UNCHANGED <<_chainParams, _hardfork, _supportedHardforks, _eips, HARDFORK_CHANGES, EIPs>>

ActiveHardforks(blockNumber, opts) ==
  Query([op |-> "activeHardforks", blockNumber |-> blockNumber, opts |-> opts,
         value |-> activeHardforks(_chainParams, _supportedHardforks, blockNumber, opts)])

NextHardforkBlock(hardfork) ==
  LET r == nextHardforkBlock(_chainParams, _supportedHardforks, _hardfork, hardfork)
  IN  Query([op |-> "nextHardforkBlock", hardfork |-> hardfork,
             status |-> r.status, value |-> r.value])

HardforkGteHardfork(hardfork1, hardfork2, opts) ==
  LET r == hardforkGteHardfork(_chainParams, _supportedHardforks, _hardfork,
                               hardfork1, hardfork2, opts)
  IN  Query([op |-> "hardforkGteHardfork", hardfork1 |-> hardfork1,
             hardfork2 |-> hardfork2, opts |-> opts,
             status |-> r.status, value |-> r.value])

GteHardfork(hardfork, opts) ==
  LET r == gteHardfork(_chainParams, _supportedHardforks, _hardfork, hardfork, opts)
  IN  Query([op |-> "gteHardfork", hardfork1 |-> "", hardfork2 |-> hardfork,
             opts |-> opts, status |-> r.status, value |-> r.value])

Param(topic, name) ==
  LET r == param(HARDFORK_CHANGES, EIPs, _supportedHardforks, _hardfork, _eips, topic, name)
  IN  Query([op |-> "param", topic |-> topic, name |-> name,
             status |-> r.status, value |-> r.value])

ParamByHardfork(topic, name, hardfork) ==
  LET r == paramByHardfork(HARDFORK_CHANGES, EIPs, _supportedHardforks, _hardfork,
                           topic, name, hardfork)
  IN  Query([op |-> "paramByHardfork", topic |-> topic, name |-> name,
             hardfork |-> hardfork, status |-> r.status, value |-> r.value])

ForkHash(hardfork) ==
  LET r == forkHash(_chainParams, _supportedHardforks, _hardfork, hardfork)
  IN  Query([op |-> "forkHash", hardfork |-> hardfork,
             status |-> r.status, value |-> r.value])

HardforkForForkHash(hash) ==
  LET r == hardforkForForkHash(_chainParams, hash)
  IN  Query([op |-> "hardforkForForkHash", forkHash |-> hash,
             found |-> r.found, hf |-> r.hf])

\* hardforkForForkHash(forkHash(hardfork)): the lookup of the hash that forkHash
\* returns.
RoundTrip(hardfork) ==
  LET hash == forkHash(_chainParams, _supportedHardforks, _hardfork, hardfork)
      r == hardforkForForkHash(_chainParams, hash.value)
  IN  /\ hash.status = "ok"
      /\ Query([op |-> "roundTrip", hardfork |-> hardfork, forkHash |-> hash.value,
                found |-> r.found, hf |-> r.hf])

\* ------------------------------------------- the configuration (Context)
ContextNames == {"chainstart", "istanbul", "customFork"}

ContextChains == {Chain(hfs) : hfs \in Timelines(ContextNames, MaxLen, {Null, 0}, {})}

ChainSelectors ==
  {[type |-> "object", chain |-> Chain(hfs)] :
     hfs \in Timelines(ContextNames, 1, {Null, 0}, {})}
  \cup {[type |-> "object", chain |-> [networkId |-> 1, genesis |-> [hash |-> GenesisHash],
                                       hardforks |-> <<>>]]}
  \cup {[type |-> "string", name |-> n] : n \in {"mainnet", "nochain"}}
  \cup {[type |-> "other"]}

Init ==
  \E opts \in Options(ContextChains, {""} \cup HardforkArgs, EipLists, SupportedChoices) :
    Constructed(ChangesFixture, EIPsFixture, opts)

Next ==
  \/ \E selector \in ChainSelectors : SetChain(selector)
  \/ \E hardfork \in HardforkArgs : SetHardfork(hardfork)
  \/ \E blockNumber \in 0..1 : SetHardforkByBlockNumber(blockNumber)
  \/ \E eips \in EipLists : SetEIPs(eips)

Spec == Init /\ [][Next]_vars

\* ------------------------------------------------- the hardfork timeline
TimelineNames == {"chainstart", "homestead", "istanbul"}

TimelineChains ==
  {Chain(hfs) : hfs \in Timelines(TimelineNames, MaxLen, Blocks(MaxBlock), {})}

TimelineSupported == {<<>>, <<"chainstart", "istanbul">>}

BlockNumbers == 0..(MaxBlock + 1)

HardforkOptions ==
  [onlySupported : {"undefined", "true", "false"}, onlyActive : {"undefined", "true"}]

InitTimeline ==
  \E opts \in Options(TimelineChains, {""}, {<<>>}, TimelineSupported) :
    Constructed(ChangesFixture, EIPsFixture, opts)

NextTimeline ==
  \/ \E blockNumber \in BlockNumbers : SetHardforkByBlockNumber(blockNumber)
  \/ \E blockNumber \in {Undefined, Null} \cup BlockNumbers,
        opts \in {o \in HardforkOptions : o.onlyActive = "undefined"} :
       ActiveHardforks(blockNumber, opts)
  \/ \E hardfork \in {""} \cup TimelineNames : NextHardforkBlock(hardfork)

SpecTimeline == InitTimeline /\ [][NextTimeline]_vars

\* --------------------------------------------- the hardfork order queries
NextGte ==
  \/ \E hardfork \in {"chainstart", "berlin"} : SetHardfork(hardfork)
  \/ \E hardfork1 \in {"istanbul", "berlin"}, hardfork2 \in {"homestead", "berlin"},
        opts \in HardforkOptions :
       HardforkGteHardfork(hardfork1, hardfork2, opts)
  \/ \E hardfork \in {"homestead", "berlin"}, opts \in HardforkOptions :
       GteHardfork(hardfork, opts)

SpecGte == InitTimeline /\ [][NextGte]_vars

\* ------------------------------------------------ the parameter resolver
\* What a hardfork file or an EIP file says about gasPrices: nothing at all
\* (no such topic), a topic without the parameter, or the parameter.
GasPricesChoices(v) ==
  {[vm |-> NoParams], InlineChanges(NoParams), InlineChanges(OneParam(v))}

ParamChanges ==
  {<< <<"chainstart", c>>, <<"istanbul", i>>, <<"berlin", EIPChanges(b)>> >> :
     c \in GasPricesChoices(1), i \in GasPricesChoices(3),
     b \in {<<>>, <<2537>>, <<2537, 2315>>, <<2315, 2537>>}}

WithMinimumHardfork(hardfork, params) ==
  [k \in {"minimumHardfork"} \cup DOMAIN params |->
     IF k = "minimumHardfork" THEN hardfork ELSE params[k]]

ParamEIPs ==
  {2537 :> WithMinimumHardfork("chainstart", a) @@ 2315 :> WithMinimumHardfork("chainstart", b) :
     a \in GasPricesChoices(11), b \in GasPricesChoices(12)}

ParamChain ==
  Chain(<< [name |-> "chainstart", block |-> 0], [name |-> "istanbul", block |-> 1],
           [name |-> "berlin", block |-> Null] >>)

ParamHardforks == {"chainstart", "istanbul", "berlin"}

InitParam ==
  \E changes \in ParamChanges, eipsData \in ParamEIPs,
     opts \in Options({ParamChain}, {""} \cup ParamHardforks,
                      {e \in EipLists : Range(e) \subseteq {2537, 2315}},
                      {<<"chainstart", "berlin">>}) :
    Constructed(changes, eipsData, opts)

NextParam ==
  \/ \E topic \in Topics : Param(topic, ParamName)
  \/ \E topic \in Topics, hardfork \in {""} \cup ParamHardforks :
       ParamByHardfork(topic, ParamName, hardfork)

SpecParam == InitParam /\ [][NextParam]_vars

\* ---------------------------------------------------- the fork-hash engine
\* The fork hashes a dataset may carry: the hash of the genesis alone and the
\* hash "0xab".
StoredHashes == {toString16(crc32Buffer(GenesisHash)), <<10, 11>>}

ForkChains ==
  {Chain(hfs) : hfs \in Timelines(TimelineNames, MaxLen, Blocks(MaxBlock), StoredHashes)}

\* The fork hashes that forkHash returns on the chain.
ForkHashes(chainParams) ==
  {forkHash(chainParams, <<>>, "", hardforks(chainParams)[i].name).value :
     i \in {j \in 1..Len(hardforks(chainParams)) : hardforks(chainParams)[j].block # Null}}

InitForkHash ==
  \E opts \in Options(ForkChains, {""}, {<<>>}, {}) :
    Constructed(ChangesFixture, EIPsFixture, opts)

NextForkHash ==
  \/ \E hardfork \in {""} \cup TimelineNames : ForkHash(hardfork)
  \/ \E hash \in StoredHashes \cup ForkHashes(_chainParams) : HardforkForForkHash(hash)
  \/ \E hardfork \in {""} \cup TimelineNames : RoundTrip(hardfork)

SpecForkHash == InitForkHash /\ [][NextForkHash]_vars

\* ------------------------------------------------------------ properties
\* 0-based position of the record named hardfork in a timeline of unique
\* names, -1 when the timeline has no such record.
Position(hfs, hardfork) ==
  IF \E i \in 1..Len(hfs) : hfs[i].name = hardfork
  THEN (CHOOSE i \in 1..Len(hfs) : hfs[i].name = hardfork) - 1
  ELSE -1

UnknownEIP(eip) == eip \notin DOMAIN EIPs

HardforkTooOld(eip) ==
  Position(_chainParams.hardforks, _hardfork)
    < Position(_chainParams.hardforks, EIPs[eip].minimumHardfork)

Offending(eip) == UnknownEIP(eip) \/ HardforkTooOld(eip)

\* C1: setEIPs is all-or-nothing.  When some EIP of the batch is unknown or
\* has a minimumHardfork positioned after the current hardfork in the chain's
\* full timeline, the call fails (with the error of the first such EIP) and
\* the active EIP set is what it was before the call; when every EIP passes,
\* the call succeeds and the active EIP set is the given list.
C1_SetEIPsAllOrNothing ==
  call.op = "setEIPs" =>
    IF \E i \in 1..Len(call.eips) : Offending(call.eips[i])
    THEN LET first == CHOOSE i \in 1..Len(call.eips) :
                        /\ Offending(call.eips[i])
                        /\ \A j \in 1..(i - 1) : ~Offending(call.eips[j])
         IN  /\ call.status = IF UnknownEIP(call.eips[first])
                              THEN "UnknownEIP" ELSE "HardforkTooOld"
             /\ _eips = call.before
    ELSE /\ call.status = "ok"
         /\ _eips = call.eips

\* A batch whose last EIP is too young for the current hardfork, after an EIP
\* that passes, was rejected while another EIP set was active.
C1_Witness ==
  /\ call.op = "setEIPs"
  /\ Len(call.eips) = 2
  /\ ~Offending(call.eips[1])
  /\ ~UnknownEIP(call.eips[2]) /\ HardforkTooOld(call.eips[2])
  /\ call.status = "HardforkTooOld"
  /\ call.before # <<>>
  /\ call.before # call.eips
  /\ _eips = call.before

Unsupported(hardfork) ==
  _supportedHardforks # <<>> /\ hardfork \notin Range(_supportedHardforks)

InChanges(hardfork) ==
  hardfork \in {HARDFORK_CHANGES[i][1] : i \in 1..Len(HARDFORK_CHANGES)}

InChainTimeline(hardfork) ==
  hardfork \in {_chainParams.hardforks[i].name : i \in 1..Len(_chainParams.hardforks)}

\* C4 as stated: setHardfork(name) fails with UnsupportedHardfork when the
\* non-empty allow-list excludes name, fails with UnknownHardfork when name is
\* absent from the selected chain's timeline, leaves the current hardfork
\* unchanged on failure and sets it to name on success.
C4_Original ==
  call.op = "setHardfork" =>
    /\ Unsupported(call.hardfork) => call.status = "UnsupportedHardfork"
    /\ (~Unsupported(call.hardfork) /\ ~InChainTimeline(call.hardfork))
         => call.status = "UnknownHardfork"
    /\ call.status # "ok" => _hardfork = call.before
    /\ call.status = "ok" => _hardfork = call.hardfork

\* C4 (amended): setHardfork(name) fails with UnsupportedHardfork when the
\* non-empty allow-list excludes name; otherwise it fails with UnknownHardfork
\* exactly when name is absent from the library's table of hardfork changes,
\* whether or not the selected chain's timeline lists it; a failure leaves the
\* current hardfork unchanged and a success sets it to name.
C4_SetHardfork ==
  call.op = "setHardfork" =>
    IF Unsupported(call.hardfork)
    THEN call.status = "UnsupportedHardfork" /\ _hardfork = call.before
    ELSE IF ~InChanges(call.hardfork)
    THEN call.status = "UnknownHardfork" /\ _hardfork = call.before
    ELSE call.status = "ok" /\ _hardfork = call.hardfork

\* A hardfork that the chain's timeline lists but the table of hardfork
\* changes does not was refused, and the current hardfork kept.
C4_Witness ==
  /\ call.op = "setHardfork"
  /\ InChainTimeline(call.hardfork) /\ ~InChanges(call.hardfork)
  /\ call.status = "UnknownHardfork"
  /\ call.before # call.hardfork
  /\ _hardfork = call.before

SupportedName(hardfork) ==
  _supportedHardforks = <<>> \/ hardfork \in Range(_supportedHardforks)

GivenBlock(blockNumber) == blockNumber # Undefined /\ blockNumber # Null

\* Index of the first record whose block exceeds blockNumber; past the end of
\* the timeline when there is none or no block number is given.
Cutoff(hfs, blockNumber) ==
  LET exceeding == {i \in 1..Len(hfs) :
                      GivenBlock(blockNumber) /\ hfs[i].block # Null
                      /\ hfs[i].block > blockNumber}
  IN  IF exceeding = {} THEN Len(hfs) + 1
      ELSE CHOOSE i \in exceeding : \A j \in exceeding : i <= j

\* C6: activeHardforks(b) is the timeline, in timeline order, restricted to
\* the records with a non-null block that are positioned before the first
\* record whose block exceeds b (every such record, and only those) and, with
\* a support filter, whose name is supported; without b it is every record
\* with a non-null block.  No record of the result has a block above b.
C6_ActiveHardforks ==
  call.op = "activeHardforks" =>
    LET hfs == _chainParams.hardforks
        cutoff == Cutoff(hfs, call.blockNumber)
        kept == {hfs[i].name : i \in {j \in 1..(cutoff - 1) :
                    /\ hfs[j].block # Null
                    /\ call.opts.onlySupported = "true" => SupportedName(hfs[j].name)}}
        Keep(hf) == hf.name \in kept
    IN  /\ call.value = SelectSeq(hfs, Keep)
        /\ \A i \in 1..Len(call.value) :
             /\ call.value[i].block # Null
             /\ GivenBlock(call.blockNumber) => call.value[i].block <= call.blockNumber

\* A query at a block number kept the first record and left out a later record
\* whose block lies above the block number.
C6_Witness ==
  /\ call.op = "activeHardforks"
  /\ GivenBlock(call.blockNumber)
  /\ Len(_chainParams.hardforks) = 2
  /\ _chainParams.hardforks[2].block # Null
  /\ _chainParams.hardforks[2].block > call.blockNumber
  /\ call.value = <<_chainParams.hardforks[1]>>

\* C7: nextHardforkBlock(name) returns the smallest block strictly greater than
\* the block of name among the records with a non-null block, null when there
\* is none.
C7_NextHardforkBlock ==
  (call.op = "nextHardforkBlock" /\ call.status = "ok") =>
    LET hfs == _chainParams.hardforks
        name == IF call.hardfork = "" THEN _hardfork ELSE call.hardfork
        hfBlock == hfs[CHOOSE i \in 1..Len(hfs) : hfs[i].name = name].block
        greater == {hfs[i].block : i \in {j \in 1..Len(hfs) :
                       /\ hfs[j].block # Null
                       /\ hfBlock # Null
                       /\ hfs[j].block > hfBlock}}
    IN  call.value = IF greater = {} THEN Null
                     ELSE CHOOSE b \in greater : \A c \in greater : b <= c

\* The names of the sequence that hardforkGteHardfork compares in.
ComparedNames(opts) ==
  LET hfs == _chainParams.hardforks
  IN  IF opts.onlyActive = "true"
      THEN {hfs[i].name : i \in {j \in 1..Len(hfs) :
              /\ hfs[j].block # Null
              /\ opts.onlySupported = "true" => SupportedName(hfs[j].name)}}
      ELSE {hfs[i].name : i \in 1..Len(hfs)}

BothAbsent ==
  /\ call.op \in {"hardforkGteHardfork", "gteHardfork"}
  /\ (IF call.hardfork1 = "" THEN _hardfork ELSE call.hardfork1)
       \notin ComparedNames(call.opts)
  /\ call.hardfork2 \notin ComparedNames(call.opts)

\* C10 as stated: hardforkGteHardfork and gteHardfork return false when both
\* compared names are absent from the compared sequence.
C10_Original ==
  (BothAbsent /\ call.status = "ok") => call.value = FALSE

\* C10 (amended): when both compared names are absent from the compared
\* sequence, hardforkGteHardfork and gteHardfork return true (-1 >= -1),
\* unless the first name is given explicitly, opts.onlySupported is not false
\* and the allow-list excludes the name: then the call fails with
\* UnsupportedHardfork.
C10_BothAbsent ==
  BothAbsent =>
    IF /\ call.hardfork1 # ""
       /\ call.opts.onlySupported # "false"
       /\ ~SupportedName(call.hardfork1)
    THEN call.status = "UnsupportedHardfork"
    ELSE call.status = "ok" /\ call.value = TRUE

\* Two hardforks of the timeline, neither of them active, were compared in
\* the active sequence.
C10_Witness ==
  /\ BothAbsent
  /\ call.op = "hardforkGteHardfork"
  /\ call.opts.onlyActive = "true"
  /\ call.hardfork1 # call.hardfork2
  /\ {call.hardfork1, call.hardfork2}
       \subseteq {_chainParams.hardforks[i].name : i \in 1..Len(_chainParams.hardforks)}
  /\ call.status = "ok"
  /\ call.value = TRUE

\* The file of an EIP, or the inline file of a hardfork, defines (topic, name).
Defines(file, topic, name) ==
  topic \in DOMAIN file /\ name \in DOMAIN file[topic]

\* The indices of the EIPs of the list whose file defines (topic, name).
DefiningEIPs(list, topic, name) ==
  {j \in 1..Len(list) : Defines(EIPs[list[j]], topic, name)}

Largest(S) == CHOOSE i \in S : \A j \in S : j <= i
Smallest(S) == CHOOSE i \in S : \A j \in S : i <= j

IsEIPReferencing(i) == "eips" \in DOMAIN HARDFORK_CHANGES[i][2]

\* Record i of the hardfork timeline defines (topic, name).
RecordDefines(i, topic, name) ==
  IF IsEIPReferencing(i)
  THEN DefiningEIPs(HARDFORK_CHANGES[i][2].eips, topic, name) # {}
  ELSE Defines(HARDFORK_CHANGES[i][2], topic, name)

\* The value record i gives to (topic, name): for an EIP-referencing record
\* the value of the last referenced EIP that defines it.
RecordValue(i, topic, name) ==
  IF IsEIPReferencing(i)
  THEN LET list == HARDFORK_CHANGES[i][2].eips
       IN  EIPs[list[Largest(DefiningEIPs(list, topic, name))]][topic][name]
  ELSE HARDFORK_CHANGES[i][2][topic][name]

ChangesPosition(hardfork) ==
  CHOOSE i \in 1..Len(HARDFORK_CHANGES) : HARDFORK_CHANGES[i][1] = hardfork

\* The hardfork-timeline value of (topic, name) at hardfork: the value of the
\* latest record at or before hardfork that defines it, null if there is none.
TimelineValue(topic, name, hardfork) ==
  LET defining == {i \in 1..ChangesPosition(hardfork) : RecordDefines(i, topic, name)}
  IN  IF defining = {} THEN Null ELSE RecordValue(Largest(defining), topic, name)

\* The walk up to hardfork meets a file without the topic.
TimelineLacksTopic(topic, hardfork) ==
  \E i \in 1..ChangesPosition(hardfork) :
    IF IsEIPReferencing(i)
    THEN \E j \in 1..Len(HARDFORK_CHANGES[i][2].eips) :
           topic \notin DOMAIN EIPs[HARDFORK_CHANGES[i][2].eips[j]]
    ELSE topic \notin DOMAIN HARDFORK_CHANGES[i][2]

\* The value C2 names: that of the first active EIP, in listed order, that
\* defines (topic, name), else the hardfork-timeline value at the current
\* hardfork.
ParamValue(topic, name) ==
  LET defining == DefiningEIPs(_eips, topic, name)
  IN  IF defining # {}
      THEN EIPs[_eips[Smallest(defining)]][topic][name]
      ELSE TimelineValue(topic, name, _hardfork)

\* C2 as stated: for every current hardfork and every active EIP list,
\* param(topic, name) returns the value of the first active EIP that defines
\* (topic, name), else the hardfork-timeline value for the current hardfork
\* (null if no layer defines it); an active EIP that does not define
\* (topic, name) never prevents the timeline value from being returned.
C2_Original ==
  call.op = "param" =>
    (call.status = "ok" /\ call.value = ParamValue(call.topic, call.name))

\* C2 (amended): param(topic, name) returns the value of the first active EIP,
\* in listed order, that defines (topic, name), unless an active EIP listed
\* before it has no such topic: then it fails with UnknownTopic.  When every
\* active EIP has the topic and none defines (topic, name), it does what
\* paramByHardfork does for the current hardfork: it fails with
\* UnsupportedHardfork when the non-empty allow-list excludes the current
\* hardfork, with UnknownTopic when a file of the walk has no such topic, and
\* else returns the hardfork-timeline value (null if no layer defines it).
C2_Param ==
  call.op = "param" =>
    LET defining == DefiningEIPs(_eips, call.topic, call.name)
        upTo == IF defining = {} THEN Len(_eips) ELSE Smallest(defining)
    IN  IF \E i \in 1..upTo : call.topic \notin DOMAIN EIPs[_eips[i]]
        THEN call.status = "UnknownTopic"
        ELSE IF defining = {} /\ ~SupportedName(_hardfork)
        THEN call.status = "UnsupportedHardfork"
        ELSE IF defining = {} /\ TimelineLacksTopic(call.topic, _hardfork)
        THEN call.status = "UnknownTopic"
        ELSE /\ call.status = "ok"
             /\ call.value = ParamValue(call.topic, call.name)

\* Two EIPs are active, the first does not define the parameter, the second
\* does, and the timeline has another value for it: the second EIP's value
\* was returned.
C2_Witness ==
  /\ call.op = "param"
  /\ call.status = "ok"
  /\ Len(_eips) = 2
  /\ DefiningEIPs(_eips, call.topic, call.name) = {2}
  /\ SupportedName(_hardfork)
  /\ ~TimelineLacksTopic(call.topic, _hardfork)
  /\ TimelineValue(call.topic, call.name, _hardfork) # Null
  /\ TimelineValue(call.topic, call.name, _hardfork) # call.value
  /\ call.value = EIPs[_eips[2]][call.topic][call.name]

\* C3 as stated: for every target hardfork H, paramByHardfork(topic, name, H)
\* returns the value of the latest record at or before H in the hardfork
\* timeline that defines (topic, name), null when there is none.
C3_Original ==
  (call.op = "paramByHardfork" /\ call.hardfork # "") =>
    /\ call.status = "ok"
    /\ call.value = TimelineValue(call.topic, call.name, call.hardfork)

\* C3 (amended): paramByHardfork(topic, name, H), for a hardfork H of the
\* timeline, fails with UnsupportedHardfork when the non-empty allow-list
\* excludes H and with UnknownTopic when a file of the walk up to H has no such
\* topic; otherwise it returns the value of the latest record at or before H
\* that defines (topic, name) (for an EIP-referencing record the last of its
\* EIPs that defines it), null when no record at or before H defines it; the
\* records after H have no influence.
C3_ParamByHardfork ==
  (call.op = "paramByHardfork" /\ call.hardfork # "") =>
    IF ~SupportedName(call.hardfork) THEN call.status = "UnsupportedHardfork"
    ELSE IF TimelineLacksTopic(call.topic, call.hardfork)
    THEN call.status = "UnknownTopic"
    ELSE /\ call.status = "ok"
         /\ call.value = TimelineValue(call.topic, call.name, call.hardfork)

\* The target hardfork does not define the parameter, an earlier record does
\* and a later record defines it too: the earlier value was returned.
C3_Witness ==
  /\ call.op = "paramByHardfork"
  /\ call.hardfork # ""
  /\ call.status = "ok"
  /\ LET pos == ChangesPosition(call.hardfork)
     IN  /\ ~RecordDefines(pos, call.topic, call.name)
         /\ \E i \in 1..(pos - 1) :
              /\ RecordDefines(i, call.topic, call.name)
              /\ call.value = RecordValue(i, call.topic, call.name)
         /\ \E i \in (pos + 1)..Len(HARDFORK_CHANGES) :
              /\ RecordDefines(i, call.topic, call.name)
              /\ RecordValue(i, call.topic, call.name) # call.value

\* ------------------------------------------------------------------ C8
\* The hardfork a fork-hash query is about: the named one, else the current.
Target == IF call.hardfork = "" THEN _hardfork ELSE call.hardfork

\* Record i contributes its block to the digest input.
Contributes(hfs, i) ==
  /\ hfs[i].block \notin {0, Null}
  /\ i = 1 \/ hfs[i].block # hfs[i - 1].block

\* The 8-byte block numbers of the contributing records 1..p, in order.
RECURSIVE BlockBytes(_, _)
BlockBytes(hfs, p) ==
  IF p = 0 THEN <<>>
  ELSE BlockBytes(hfs, p - 1)
         \o (IF Contributes(hfs, p) THEN hfBlockBuffer(hfs[p].block) ELSE <<>>)

Digest(bytes) == toString16(crc32Buffer(bytes))

\* C8: forkHash(H) fails with NoForkHash when H's block is null; otherwise it
\* returns H's precomputed forkHash when the record carries one, and else the
\* digest of the genesis hash followed by, in timeline order, the block of
\* each record from the first up to and including H whose block is neither 0
\* nor null and differs from the preceding record's block; for chainstart at
\* block 0 the input is the genesis bytes alone.
C8_ForkHash ==
  call.op = "forkHash" =>
    LET hfs == _chainParams.hardforks
    IN  \A p \in 1..Len(hfs) :
          hfs[p].name = Target =>
            /\ IF hfs[p].block = Null THEN call.status = "NoForkHash"
               ELSE /\ call.status = "ok"
                    /\ call.value =
                         IF "forkHash" \in DOMAIN hfs[p] THEN hfs[p].forkHash
                         ELSE Digest(_chainParams.genesis.hash \o BlockBytes(hfs, p))
            /\ (hfs[p].block = 0 /\ p = 1 /\ "forkHash" \notin DOMAIN hfs[p])
                 => call.value = Digest(_chainParams.genesis.hash)

\* A computed fork hash of a hardfork that shares its non-zero block with the
\* record before it, while a later record would add another block.
C8_Witness ==
  /\ call.op = "forkHash"
  /\ call.status = "ok"
  /\ LET hfs == _chainParams.hardforks
     IN  /\ Len(hfs) >= 2
         /\ hfs[2].name = Target
         /\ "forkHash" \notin DOMAIN hfs[2]
         /\ hfs[2].block # 0
         /\ hfs[2].block = hfs[1].block
         /\ call.value = Digest(_chainParams.genesis.hash \o hfBlockBuffer(hfs[1].block))

\* ------------------------------------------------------------------ C9
Lookup == call.op \in {"hardforkForForkHash", "roundTrip"}

\* Record i has a non-null block and forkHash returns the looked-up hash for it.
HashOf(i) ==
  LET hfs == _chainParams.hardforks
      r == forkHash(_chainParams, _supportedHardforks, _hardfork, hfs[i].name)
  IN  /\ hfs[i].block # Null
      /\ r.status = "ok"
      /\ r.value = call.forkHash

\* Record i carries the looked-up hash as its precomputed forkHash.
Carries(i) ==
  /\ "forkHash" \in DOMAIN _chainParams.hardforks[i]
  /\ _chainParams.hardforks[i].forkHash = call.forkHash

Returned(i) == call.found /\ call.hf = _chainParams.hardforks[i]

\* The statement as claimed: the round trip returns the record for H for every
\* hardfork H with a non-null block whose fork hash no other such hardfork
\* has, precomputed or computed.
C9_Original ==
  call.op = "roundTrip" =>
    LET hfs == _chainParams.hardforks
    IN  \A i \in 1..Len(hfs) :
          (hfs[i].name = Target /\ \A j \in 1..Len(hfs) : j # i => ~HashOf(j))
            => Returned(i)

\* C9: hardforkForForkHash(forkHash(H)) returns the record for H when H has a
\* non-null block and carries a precomputed forkHash that no other record of
\* the timeline carries, and does not return it when H's hash is computed:
\* the lookup matches precomputed hashes only, so it returns null for a hash
\* that no record or more than one record carries, and never a record that
\* does not carry the hash.
C9_RoundTrip ==
  Lookup =>
    LET hfs == _chainParams.hardforks
        carriers == {j \in 1..Len(hfs) : Carries(j)}
    IN  /\ call.op = "roundTrip" =>
             \A i \in 1..Len(hfs) :
               hfs[i].name = Target =>
                 /\ ("forkHash" \in DOMAIN hfs[i]
                       /\ \A j \in 1..Len(hfs) :
                            (j # i /\ "forkHash" \in DOMAIN hfs[j])
                              => hfs[j].forkHash # hfs[i].forkHash)
                      => Returned(i)
                 /\ "forkHash" \notin DOMAIN hfs[i] => ~Returned(i)
        /\ Cardinality(carriers) # 1 => ~call.found
        /\ call.found => \E j \in carriers : call.hf = hfs[j]

\* The round trip of a precomputed hash that differs from the computed one,
\* on a timeline where another record carries a different hash.
C9_Witness ==
  /\ call.op = "roundTrip"
  /\ LET hfs == _chainParams.hardforks
     IN  \E i, j \in 1..Len(hfs) :
           /\ hfs[i].name = Target
           /\ Carries(i) /\ Returned(i)
           /\ call.forkHash # _calcForkHash(_chainParams, hfs[i].name)
           /\ j # i /\ "forkHash" \in DOMAIN hfs[j] /\ ~Carries(j)

\* ------------------------------------------------------------------ C11
\* C11: in every state reached by construction, setChain, setHardfork,
\* setHardforkByBlockNumber and setEIPs, every active EIP has a
\* minimumHardfork positioned in the chain's timeline at or before the current
\* hardfork.
C11_ActiveEIPsAboveMinimum ==
  \A i \in 1..Len(_eips) : ~UnknownEIP(_eips[i]) => ~HardforkTooOld(_eips[i])

\* ------------------------------------------------------------------ C12
\* C12: whenever the support allow-list is non-empty, the current hardfork is
\* a member of it, in every state reached from construction through setChain,
\* setHardfork, setHardforkByBlockNumber and setEIPs.
C12_CurrentHardforkSupported ==
  _supportedHardforks # <<>> => _hardfork \in Range(_supportedHardforks)

====
